---- MODULE Spec2Model ----
(***************************************************************************)
(* Pairs Watch (src/app.py): one run of the Streamlit script, from the     *)
(* widget values to the last chart.  The script is a straight line of      *)
(* stages; each stage is one action, and pc is the script's position.      *)
(*                                                                         *)
(* Numbers are exact rationals <<num, den>> with den > 0, in lowest terms. *)
(* <<0, 0>> stands for NaN and <<1, 0>> for +inf (x / 0 with x # 0).       *)
(* Dates are day numbers.  A rolling standard deviation is carried as its  *)
(* square (the sample variance), so that it stays rational.                *)
(***************************************************************************)
EXTENDS Integers, Sequences, FiniteSets, TLC

\* ---------------------------------------------------------------- bounds
MaxDay == 2
MaxRows == 3
MaxWindow == 3
PDenom == 40

\* ------------------------------------------------------- program constants
ticker_options ==
    << "SPY", "QQQ", "AAPL", "GOOGL", "MSFT", "AMZN", "TSLA", "NVDA", "AMD",
       "META", "NFLX", "NKE", "ADDYY", "BMW.DE", "MBG.DE", "VOW.DE",
       "PAH3.DE", "AML.L", "RR.L", "QUAL", "MTUM", "USMV", "VLUE" >>

WindowMin == 1
WindowMax == 365

\* adf_pvalue < 0.05
Alpha05 == <<1, 20>>

ErrEndBeforeStart == "End Date cannot be earlier than Start Date"
ErrFuture == "Dates cannot be in the future"
ErrWindow == "Rolling window period cannot be greater than the difference"

\* ------------------------------------------------------------- arithmetic
Abs(a) == IF a < 0 THEN -a ELSE a
Min(a, b) == IF a < b THEN a ELSE b

RECURSIVE GCD(_, _)
GCD(a, b) == IF b = 0 THEN a ELSE GCD(b, a % b)

NaN == <<0, 0>>
Inf == <<1, 0>>
IsNaN(x) == x = NaN
IsNum(x) == x[2] > 0

Norm(n, d) ==
    IF d = 0 THEN (IF n = 0 THEN NaN ELSE Inf)
    ELSE LET g == GCD(Abs(n), Abs(d))
             s == IF d < 0 THEN -1 ELSE 1
         IN  << (s * n) \div g, (s * d) \div g >>

Rat(i) == <<i, 1>>
Zero == Rat(0)
One == Rat(1)

\* IEEE arithmetic on the values the script can produce: NaN propagates.
RAdd(x, y) == IF ~IsNum(x) \/ ~IsNum(y) THEN NaN
              ELSE Norm(x[1] * y[2] + y[1] * x[2], x[2] * y[2])
RSub(x, y) == IF ~IsNum(x) \/ ~IsNum(y) THEN NaN
              ELSE Norm(x[1] * y[2] - y[1] * x[2], x[2] * y[2])
RMul(x, y) == IF ~IsNum(x) \/ ~IsNum(y) THEN NaN
              ELSE Norm(x[1] * y[1], x[2] * y[2])
RDiv(x, y) == IF ~IsNum(x) \/ ~IsNum(y) THEN NaN
              ELSE IF y[1] = 0 THEN (IF x[1] = 0 THEN NaN ELSE Inf)
              ELSE Norm(x[1] * y[2], x[2] * y[1])
\* a comparison with NaN is False
RLt(x, y) == IsNum(x) /\ IsNum(y) /\ x[1] * y[2] < y[1] * x[2]

RECURSIVE SumSeq(_)
SumSeq(s) == IF s = <<>> THEN Zero ELSE RAdd(s[1], SumSeq(Tail(s)))

\* ------------------------------------------------------ pandas operations
\* A price table is a sequence of rows <<price of ticker1, price of ticker2>>,
\* one row per date, ascending; row i is date i of the table.
Column(table, k) == [i \in 1..Len(table) |-> table[i][k]]

\* Series.ffill: a missing value takes the last valid value before it.
RECURSIVE Ffill(_)
Ffill(col) ==
    IF Len(col) <= 1 THEN col
    ELSE LET f == Ffill(SubSeq(col, 1, Len(col) - 1))
             x == col[Len(col)]
         IN  Append(f, IF IsNaN(x) THEN f[Len(f)] ELSE x)

\* the first row reported as a zero return instead of a missing one
PctChangeZeroFirst(col, pad) ==
    LET c == IF pad THEN Ffill(col) ELSE col
    IN  [i \in 1..Len(c) |->
            IF i = 1 THEN Zero ELSE RSub(RDiv(c[i], c[i - 1]), One)]

\* Series.pct_change: x / x.shift(1) - 1, after the fill the build's pandas
\* applies (fill_method "pad" up to pandas 2, none from pandas 3).
PctChange(col, pad) ==
    LET c == IF pad THEN Ffill(col) ELSE col
    IN  [i \in 1..Len(c) |->
            IF i = 1 THEN NaN ELSE RSub(RDiv(c[i], c[i - 1]), One)]

\* data.pct_change().dropna(): the rows in which both returns are numbers.
Returns(table, pad) ==
    LET r1 == PctChange(Column(table, 1), pad)
        r2 == PctChange(Column(table, 2), pad)
        all == [i \in 1..Len(table) |-> [Date |-> i, t1 |-> r1[i], t2 |-> r2[i]]]
    IN  SelectSeq(all, LAMBDA row : ~IsNaN(row.t1) /\ ~IsNaN(row.t2))

\* a running sum where the running product belongs
RECURSIVE CumSumSlip(_)
CumSumSlip(s) ==
    IF Len(s) <= 1 THEN s
    ELSE LET c == CumSumSlip(SubSeq(s, 1, Len(s) - 1))
         IN  Append(c, RAdd(c[Len(c)], s[Len(s)]))

RECURSIVE CumProd(_)
CumProd(s) ==
    IF Len(s) <= 1 THEN s
    ELSE LET c == CumProd(SubSeq(s, 1, Len(s) - 1))
         IN  Append(c, RMul(c[Len(c)], s[Len(s)]))

\* the growth factors charted without the final "- 1"
CmReturnsGrowth(rets) ==
    LET g1 == CumProd([i \in 1..Len(rets) |-> RAdd(rets[i].t1, One)])
        g2 == CumProd([i \in 1..Len(rets) |-> RAdd(rets[i].t2, One)])
    IN  [i \in 1..Len(rets) |-> [Date |-> rets[i].Date, t1 |-> g1[i], t2 |-> g2[i]]]

\* (returns + 1).cumprod() - 1, column by column, on the index of returns.
CmReturns(rets) ==
    LET g1 == CumProd([i \in 1..Len(rets) |-> RAdd(rets[i].t1, One)])
        g2 == CumProd([i \in 1..Len(rets) |-> RAdd(rets[i].t2, One)])
    IN  [i \in 1..Len(rets) |->
            [Date |-> rets[i].Date, t1 |-> RSub(g1[i], One), t2 |-> RSub(g2[i], One)]]

\* ------------------------------------------------------------ regression
\* sm.add_constant(X) (has_constant = "skip"): no column of ones is added
\* when X is already a non-zero constant column.
XIsNonzeroConst(xs) ==
    /\ \A i \in 1..Len(xs) : xs[i] = xs[1]
    /\ \E i \in 1..Len(xs) : xs[i] # Zero

\* sm.OLS(Y, X).fit(): least squares, by the pseudo-inverse when the design
\* has no full rank.  alpha is params["const"] (0 when there is no such
\* column), beta is params[ticker1].
OLSFit(xs, ys) ==
    LET n == Rat(Len(xs))
        Sx == SumSeq(xs)
        Sy == SumSeq(ys)
        Sxx == SumSeq([i \in 1..Len(xs) |-> RMul(xs[i], xs[i])])
        Sxy == SumSeq([i \in 1..Len(xs) |-> RMul(xs[i], ys[i])])
        det == RSub(RMul(n, Sxx), RMul(Sx, Sx))
    IN  IF XIsNonzeroConst(xs)
        THEN [const |-> FALSE, alpha |-> Zero, beta |-> RDiv(Sxy, Sxx)]
        ELSE IF det = Zero
        THEN [const |-> TRUE, alpha |-> RDiv(Sy, n), beta |-> Zero]
        ELSE LET b == RDiv(RSub(RMul(n, Sxy), RMul(Sx, Sy)), det)
             IN  [const |-> TRUE, alpha |-> RDiv(RSub(Sy, RMul(b, Sx)), n), beta |-> b]

\* model.resid: Y minus the fitted values.
Resid(fit, rets) ==
    [i \in 1..Len(rets) |->
        [Date |-> rets[i].Date,
         v |-> RSub(rets[i].t2, RAdd(fit.alpha, RMul(fit.beta, rets[i].t1)))]]

\* the two tickers taken in the other order
SpreadSwapped(b, rets) ==
    [i \in 1..Len(rets) |->
        [Date |-> rets[i].Date, v |-> RSub(rets[i].t1, RMul(b, rets[i].t2))]]

\* spread = returns[ticker2] - beta * returns[ticker1]
Spread(b, rets) ==
    [i \in 1..Len(rets) |->
        [Date |-> rets[i].Date, v |-> RSub(rets[i].t2, RMul(b, rets[i].t1))]]

\* adf_pvalue <= 0.05
IsStationaryLeq(p) == RLt(p, Alpha05) \/ p = Alpha05

\* adf_pvalue < 0.05
IsStationary(p) == RLt(p, Alpha05)

\* ---------------------------------------------------------- rolling window
\* Series.rolling(window = w).std(), squared: NaN until w observations are
\* in the window, then the sample variance (ddof = 1) of the last w.
RollingVar(xs, w) ==
    [i \in 1..Len(xs) |->
        IF i < w THEN NaN
        ELSE LET win == SubSeq(xs, i - w + 1, i)
                 S == SumSeq(win)
                 SS == SumSeq([j \in 1..w |-> RMul(win[j], win[j])])
             IN  RDiv(RSub(SS, RDiv(RMul(S, S), Rat(w))), Rat(w - 1))]

\* returns[ticker].rolling(window = w).std().dropna()
RollingVolatility(rets, k, w) ==
    LET xs == [i \in 1..Len(rets) |-> IF k = 1 THEN rets[i].t1 ELSE rets[i].t2]
        rv == RollingVar(xs, w)
        all == [i \in 1..Len(rets) |-> [Date |-> rets[i].Date, v |-> rv[i]]]
    IN  SelectSeq(all, LAMBDA e : ~IsNaN(e.v))

Dates(s) == {s[i].Date : i \in 1..Len(s)}
At(s, d) == IF d \in Dates(s) THEN (CHOOSE e \in {s[i] : i \in 1..Len(s)} : e.Date = d).v
            ELSE NaN

RECURSIVE SortedSeq(_)
SortedSeq(S) ==
    IF S = {} THEN <<>>
    ELSE LET m == CHOOSE x \in S : \A y \in S : x <= y
         IN  <<m>> \o SortedSeq(S \ {m})

\* v1 / v2 aligns the two series on the union of their dates (NaN where a
\* date is missing on one side); the entries are squares of the ratios.
Divide(v1, v2) ==
    LET ds == SortedSeq(Dates(v1) \cup Dates(v2))
    IN  [i \in 1..Len(ds) |-> [Date |-> ds[i], v |-> RDiv(At(v1, ds[i]), At(v2, ds[i]))]]

DropNaN(s) == SelectSeq(s, LAMBDA e : ~IsNaN(e.v))

RollingVolatilityRatio(rets, w) ==
    DropNaN(Divide(RollingVolatility(rets, 1, w), RollingVolatility(rets, 2, w)))

\* ------------------------------------------------------------------ state
VARIABLES
    pc,                  \* position of the script
    pad,                 \* the build's pct_change fills missing prices forward
    ticker1, ticker2,    \* the two select boxes
    today, start_date, end_date,
    error_flag,
    errors,              \* st.error messages shown in this run
    stages,              \* pipeline stages that have executed in this run
    exception,           \* the unhandled exception that ended the run, or ""
    data, returns, cm_returns,
    model,               \* the fitted regression
    spread, adf_pvalue,
    verdict,             \* stationarity verdicts written in this run
    df_coint,
    rolling_window,      \* 0 until the number input is read
    rolling_volatility_ratio

vars == << pc, pad, ticker1, ticker2, today, start_date, end_date, error_flag,
           errors, stages, exception, data, returns, cm_returns, model, spread,
           adf_pvalue, verdict, df_coint, rolling_window,
           rolling_volatility_ratio >>

inputs == << pad, ticker1, ticker2, today, start_date, end_date >>
frames == << data, returns, cm_returns >>
regress == << model, spread, adf_pvalue, verdict, df_coint >>
rolling == << rolling_window, rolling_volatility_ratio >>

\* the second box offered the whole list
AllTickers(t1) == ticker_options

\* available_tickers = [t for t in ticker_options if t != ticker1]
available_tickers(t1) == SelectSeq(ticker_options, LAMBDA t : t # t1)

Range(s) == {s[i] : i \in 1..Len(s)}

Days == 0..MaxDay
\* closing prices: a grid of positive values
Prices == {Rat(1), Rat(2)}
\* One row per date on which at least one of the two tickers traded.
PriceRows == ((Prices \cup {NaN}) \X (Prices \cup {NaN})) \ {<<NaN, NaN>>}
\* adfuller's p-value: a grid over [0, 1] that holds the threshold itself
PValues == {Norm(k, PDenom) : k \in {0, 1, 2, 3, PDenom}} \cup {Alpha05}
Windows == WindowMin..Min(WindowMax, MaxWindow)

NoFit == [const |-> FALSE, alpha |-> NaN, beta |-> NaN]

Blank ==
    /\ error_flag = FALSE /\ errors = {} /\ stages = {} /\ exception = ""
    /\ data = <<>> /\ returns = <<>> /\ cm_returns = <<>>
    /\ model = NoFit /\ spread = <<>> /\ adf_pvalue = NaN
    /\ verdict = {} /\ df_coint = <<>>
    /\ rolling_window = 0 /\ rolling_volatility_ratio = <<>>

\* A run of the script with the select boxes at their defaults (index = 0)
\* and any dates in the two date inputs.
Init ==
    /\ pc = "validate"
    /\ pad \in BOOLEAN
    /\ ticker1 = ticker_options[1]
    /\ ticker2 = available_tickers(ticker_options[1])[1]
    /\ today \in Days /\ start_date \in Days /\ end_date \in Days
    /\ Blank

\* ---------------------------------------------------------------- actions
DateErrors(s, e, t) ==
    (IF e < s THEN {ErrEndBeforeStart} ELSE {})
    \cup (IF s > t \/ e > t THEN {ErrFuture} ELSE {})

\* lines 50-61: the two date checks, then the guard of the pipeline
Validate ==
    /\ pc = "validate"
    /\ errors' = errors \cup DateErrors(start_date, end_date, today)
    /\ error_flag' = (DateErrors(start_date, end_date, today) # {})
    /\ pc' = IF error_flag' THEN "done" ELSE "download"
    /\ UNCHANGED << inputs, stages, exception, frames, regress, rolling >>

date_diff == end_date - start_date

\* line 64: daily closes from start_date to end_date inclusive; at most one
\* row per calendar day, none when the provider has nothing or fails quietly.
Download ==
    /\ pc = "download"
    /\ \E n \in 0..Min(date_diff + 1, MaxRows) :
          \E table \in [1..n -> PriceRows] : data' = table
    /\ stages' = stages \cup {"retrieval"}
    /\ pc' = "returns"
    /\ UNCHANGED << inputs, error_flag, errors, exception, returns, cm_returns,
                    regress, rolling >>

\* line 64: the call raises (no network)
DownloadRaises ==
    /\ pc = "download"
    /\ stages' = stages \cup {"retrieval"}
    /\ exception' = "download"
    /\ pc' = "crashed"
    /\ UNCHANGED << inputs, error_flag, errors, frames, regress, rolling >>

\* lines 66-70
ComputeReturns ==
    /\ pc = "returns"
    /\ returns' = Returns(data, pad)
    /\ cm_returns' = CmReturns(returns')
    /\ stages' = stages \cup {"returns"}
    /\ pc' = "summary"
    /\ UNCHANGED << inputs, error_flag, errors, exception, data, regress, rolling >>

\* lines 76-81: .iloc[-1] of an empty frame raises IndexError
SummaryRaises ==
    /\ pc = "summary"
    /\ (Len(data) = 0 \/ Len(returns) = 0)
    /\ exception' = "IndexError"
    /\ pc' = "crashed"
    /\ UNCHANGED << inputs, error_flag, errors, stages, frames, regress, rolling >>

\* lines 73-130: metrics, cumulative-return chart, scatter plot
MarketSummary ==
    /\ pc = "summary"
    /\ Len(data) > 0 /\ Len(returns) > 0
    /\ stages' = stages \cup {"charts"}
    /\ pc' = "ols"
    /\ UNCHANGED << inputs, error_flag, errors, exception, frames, regress, rolling >>

\* lines 138-154
Regression ==
    /\ pc = "ols"
    /\ model' = OLSFit([i \in 1..Len(returns) |-> returns[i].t1],
                       [i \in 1..Len(returns) |-> returns[i].t2])
    /\ stages' = stages \cup {"regression"}
    /\ pc' = "adf"
    /\ UNCHANGED << inputs, error_flag, errors, exception, frames, spread,
                    adf_pvalue, verdict, df_coint, rolling >>

Verdict(p) == IF IsStationary(p) THEN "stationary" ELSE "non-stationary"

\* lines 157-179: the spread, its ADF p-value, and the verdict
ADFTest ==
    /\ pc = "adf"
    /\ spread' = Spread(model.beta, returns)
    /\ \E p \in PValues : adf_pvalue' = p
    /\ verdict' = verdict \cup {Verdict(adf_pvalue')}
    /\ stages' = stages \cup {"adf"}
    /\ pc' = "residuals"
    /\ UNCHANGED << inputs, error_flag, errors, exception, frames, model,
                    df_coint, rolling >>

\* line 158: adfuller raises (sample too short, constant series)
ADFRaises ==
    /\ pc = "adf"
    /\ spread' = Spread(model.beta, returns)
    /\ stages' = stages \cup {"adf"}
    /\ exception' = "adfuller"
    /\ pc' = "crashed"
    /\ UNCHANGED << inputs, error_flag, errors, frames, model, adf_pvalue,
                    verdict, df_coint, rolling >>

\* lines 191-229: the residual chart
Residuals ==
    /\ pc = "residuals"
    /\ df_coint' = Resid(model, returns)
    /\ pc' = "window"
    /\ UNCHANGED << inputs, error_flag, errors, stages, exception, frames, model,
                    spread, adf_pvalue, verdict, rolling >>

\* lines 241-253: the window is read and found larger than the date span
WindowRejected ==
    /\ pc = "window"
    /\ \E w \in Windows :
          /\ w > date_diff
          /\ rolling_window' = w
    /\ errors' = errors \cup {ErrWindow}
    /\ pc' = "done"
    /\ UNCHANGED << inputs, error_flag, stages, exception, frames, regress,
                    rolling_volatility_ratio >>

\* lines 241-283: the rolling volatility ratio and its chart
RollingRatio ==
    /\ pc = "window"
    /\ \E w \in Windows :
          /\ ~(w > date_diff)
          /\ rolling_window' = w
    /\ rolling_volatility_ratio' = RollingVolatilityRatio(returns, rolling_window')
    /\ stages' = stages \cup {"rolling"}
    /\ pc' = "done"
    /\ UNCHANGED << inputs, error_flag, errors, exception, frames, regress >>

Next ==
    \/ Validate
    \/ Download
    \/ DownloadRaises
    \/ ComputeReturns
    \/ SummaryRaises
    \/ MarketSummary
    \/ Regression
    \/ ADFTest
    \/ ADFRaises
    \/ Residuals
    \/ WindowRejected
    \/ RollingRatio

Spec == Init /\ [][Next]_vars

\* --------------------------------------------------------- ticker selection
\* lines 29-38 on their own: every choice the two select boxes allow.
InitSelect ==
    /\ pc = "select1"
    /\ pad = FALSE
    /\ ticker1 = "" /\ ticker2 = ""
    /\ today = 0 /\ start_date = 0 /\ end_date = 0
    /\ Blank

\* line 34
SelectTicker1 ==
    /\ pc = "select1"
    /\ \E t \in Range(ticker_options) : ticker1' = t
    /\ pc' = "select2"
    /\ UNCHANGED << pad, ticker2, today, start_date, end_date, error_flag, errors,
                    stages, exception, frames, regress, rolling >>

\* lines 36-38
SelectTicker2 ==
    /\ pc = "select2"
    /\ \E t \in Range(available_tickers(ticker1)) : ticker2' = t
    /\ pc' = "selected"
    /\ UNCHANGED << pad, ticker1, today, start_date, end_date, error_flag, errors,
                    stages, exception, frames, regress, rolling >>

NextSelect ==
    \/ SelectTicker1
    \/ SelectTicker2

SpecSelect == InitSelect /\ [][NextSelect]_vars

\* ------------------------------------------------------------------ claims
Terminal == pc \in {"done", "crashed"}
DatesValid == ~(end_date < start_date) /\ ~(start_date > today) /\ ~(end_date > today)
NoMissing(table) == \A i \in 1..Len(table) : IsNum(table[i][1]) /\ IsNum(table[i][2])
VerdictWritten == "adf" \in stages /\ exception = ""
ResidualsCharted == VerdictWritten /\ pc \in {"window", "done"}
PipelineStages == {"retrieval", "returns", "charts", "regression", "adf", "rolling"}

\* C1: when any validation fails (a date rule or the rolling-window rule), an
\* error message is shown and no pipeline stage (retrieval, returns,
\* regression, ADF, charts) executes in that run.
C1_NoStageAfterFailedValidation ==
    /\ errors # {} => stages \cap PipelineStages = {}
    /\ (Terminal /\ ~DatesValid) => errors # {}
    /\ (Terminal /\ DatesValid /\ rolling_window > date_diff) => ErrWindow \in errors

\* the validation contract of C2
C2_Rule(s, e, t, w) == e < s \/ s > t \/ e > t \/ w > e - s

\* C2: an input is rejected (an error message is raised) exactly when
\* end < start, or start > today, or end > today, or window > end - start, for
\* every window the number input can hold (the window entered, once the
\* input is read); both date messages are raised when both date rules are
\* violated.
C2_RejectedExactlyWhen ==
    Terminal =>
        /\ \A w \in (IF rolling_window = 0 THEN Windows ELSE {rolling_window}) :
              (errors # {}) <=> C2_Rule(start_date, end_date, today, w)
        /\ (end_date < start_date /\ (start_date > today \/ end_date > today))
              => {ErrEndBeforeStart, ErrFuture} \subseteq errors

\* the retrieval failed, or returned fewer than two rows
C3_ShortData == exception = "download" \/ ("retrieval" \in stages /\ Len(data) < 2)

\* C3: when the retrieval fails or returns fewer than two rows, the run does
\* not end in an unhandled exception, and no statistics stage runs on the
\* empty data.
C3_HardStopNotCrash ==
    C3_ShortData =>
        /\ pc # "crashed"
        /\ stages \cap {"returns", "regression", "adf", "rolling"} = {}

\* the product of (1 + r_i) over the first t returns of ticker k
RECURSIVE C4_Product(_, _, _)
C4_Product(rets, k, t) ==
    IF t = 0 THEN One
    ELSE RMul(C4_Product(rets, k, t - 1),
              RAdd(One, IF k = 1 THEN rets[t].t1 ELSE rets[t].t2))

\* C4: for price tables without missing values, the cumulative return at each
\* date is the product of (1 + r_i) over the returns up to that date, minus 1,
\* and equals price_t / price_0 - 1, for each ticker.
C4_CumulativeIsRunningProduct ==
    ("returns" \in stages /\ NoMissing(data)) =>
        /\ Len(cm_returns) = Len(returns)
        /\ \A t \in 1..Len(cm_returns) :
              /\ cm_returns[t].Date = returns[t].Date
              /\ returns[t].t1 = RSub(RDiv(data[t + 1][1], data[t][1]), One)
              /\ returns[t].t2 = RSub(RDiv(data[t + 1][2], data[t][2]), One)
              /\ cm_returns[t].t1 = RSub(C4_Product(returns, 1, t), One)
              /\ cm_returns[t].t2 = RSub(C4_Product(returns, 2, t), One)
              /\ cm_returns[t].t1 = RSub(RDiv(data[t + 1][1], data[1][1]), One)
              /\ cm_returns[t].t2 = RSub(RDiv(data[t + 1][2], data[1][2]), One)

C4_Witness ==
    /\ "returns" \in stages /\ NoMissing(data) /\ Len(cm_returns) >= 2
    /\ cm_returns[2].t1 # cm_returns[1].t1
    /\ cm_returns[2].t1 # returns[2].t1
    /\ cm_returns[2].t2 # Zero

\* C5 as claimed: the first entry of the cumulative return series of each
\* ticker is 0 for every price table with at least two rows.
C5_FirstIsZero ==
    ("returns" \in stages /\ Len(data) >= 2 /\ Len(cm_returns) >= 1) =>
        cm_returns[1].t1 = Zero /\ cm_returns[1].t2 = Zero

\* C5 as amended: the first entry of the cumulative return series of each
\* ticker is the first entry of the return series (price_1 / price_0 - 1 on a
\* table without missing values), so it is 0 exactly when that return is 0.
C5_FirstIsFirstReturn ==
    ("returns" \in stages /\ Len(cm_returns) >= 1) =>
        /\ cm_returns[1].t1 = returns[1].t1
        /\ cm_returns[1].t2 = returns[1].t2
        /\ NoMissing(data) =>
              /\ cm_returns[1].t1 = RSub(RDiv(data[2][1], data[1][1]), One)
              /\ cm_returns[1].t2 = RSub(RDiv(data[2][2], data[1][2]), One)
              /\ (cm_returns[1].t1 = Zero <=> data[2][1] = data[1][1])

C5_Witness ==
    /\ "returns" \in stages /\ Len(data) >= 2 /\ Len(cm_returns) >= 1
    /\ cm_returns[1].t1 # Zero /\ cm_returns[1].t2 # Zero

\* C6 as claimed: for every price table with n >= 1 rows, missing prices
\* included, the return series has exactly n - 1 entries, one for each date
\* after the first.
C6_OneShorter ==
    ("returns" \in stages /\ Len(data) >= 1) =>
        /\ Len(returns) = Len(data) - 1
        /\ Dates(returns) = 2..Len(data)

\* C6 as amended: on a table with n >= 1 rows and no missing price the return
\* series has exactly n - 1 entries, one for each date after the first; with
\* missing prices it has at most n - 1 entries, on ascending dates after the
\* first.
C6_OneShorterWhenAligned ==
    ("returns" \in stages /\ Len(data) >= 1) =>
        /\ Len(returns) <= Len(data) - 1
        /\ Dates(returns) \subseteq 2..Len(data)
        /\ \A i \in 1..(Len(returns) - 1) : returns[i].Date < returns[i + 1].Date
        /\ NoMissing(data) =>
              /\ Len(returns) = Len(data) - 1
              /\ Dates(returns) = 2..Len(data)

C6_Witness ==
    /\ "returns" \in stages /\ Len(data) >= 3
    /\ ~NoMissing(data)
    /\ Len(returns) = 1

\* dates that only one of the two rolling series has
C7_Misaligned(v1, v2) ==
    Cardinality((Dates(v1) \cup Dates(v2)) \ (Dates(v1) \cap Dates(v2)))

\* dates both rolling series have, where the ratio is 0 / 0
C7_Undefined(v1, v2) ==
    Cardinality({d \in Dates(v1) \cap Dates(v2) : IsNaN(RDiv(At(v1, d), At(v2, d)))})

\* C7: for every accepted window w (w = 1 and w > n included) and n returns,
\* the rolling volatility ratio series has exactly n - w + 1 entries, less
\* only the rows the alignment of the two rolling series and the final
\* dropna take out.
C7_RatioLength ==
    "rolling" \in stages =>
        LET v1 == RollingVolatility(returns, 1, rolling_window)
            v2 == RollingVolatility(returns, 2, rolling_window)
        IN  Len(rolling_volatility_ratio)
              = Len(returns) - rolling_window + 1
                  - C7_Misaligned(v1, v2) - C7_Undefined(v1, v2)

\* C8: the series passed to the stationarity test is Y - beta * X at every
\* date, beta being the slope of the least-squares fit of Y on X with
\* intercept alpha; it differs from the charted residual by exactly alpha.
C8_SpreadOmitsIntercept ==
    ResidualsCharted =>
        /\ Len(spread) = Len(returns) /\ Len(df_coint) = Len(returns)
        /\ \A t \in 1..Len(returns) :
              /\ spread[t].Date = returns[t].Date
              /\ df_coint[t].Date = returns[t].Date
              /\ spread[t].v = RSub(returns[t].t2, RMul(model.beta, returns[t].t1))
              /\ RSub(spread[t].v, df_coint[t].v) = model.alpha
        \* the normal equations of the fit the residual comes from
        /\ SumSeq([t \in 1..Len(returns) |-> RMul(df_coint[t].v, returns[t].t1)]) = Zero
        /\ model.const => SumSeq([t \in 1..Len(returns) |-> df_coint[t].v]) = Zero

C8_Witness ==
    /\ ResidualsCharted
    /\ Len(returns) >= 2
    /\ model.const /\ model.alpha # Zero /\ model.beta # Zero
    /\ spread[1].v # df_coint[1].v

\* C9: the spread is reported stationary if and only if p < 0.05 (so p = 0.05
\* is reported non-stationary), and exactly one verdict is written.
C9_VerdictIffBelowThreshold ==
    VerdictWritten =>
        /\ Cardinality(verdict) = 1
        /\ "stationary" \in verdict <=> 20 * adf_pvalue[1] < adf_pvalue[2]
        /\ "non-stationary" \in verdict <=> 20 * adf_pvalue[1] >= adf_pvalue[2]

C9_Witness ==
    /\ pc = "done"
    /\ adf_pvalue = Alpha05
    /\ verdict = {"non-stationary"}

\* C10: both tickers are members of the allow-list, the second differs from
\* the first, and the second box offers the allow-list minus the first ticker.
C10_DistinctAllowedTickers ==
    /\ pc \in {"select2", "selected"} =>
          /\ ticker1 \in Range(ticker_options)
          /\ Range(available_tickers(ticker1)) = Range(ticker_options) \ {ticker1}
          /\ Len(available_tickers(ticker1)) = Len(ticker_options) - 1
    /\ pc = "selected" =>
          /\ ticker2 \in Range(ticker_options)
          /\ ticker2 # ticker1

C10_Witness ==
    /\ pc = "selected"
    /\ ticker1 = "QQQ"
    /\ ticker2 = "SPY"

====
